---- MODULE Spec2Model ----
(***************************************************************************)
(* A model of the use-case persistence gateway of src/src/api/usecases.ts: *)
(* the normalization adapter (safeEnsureArray / ensureArray) and the CRUD  *)
(* operations over the two storage backends (browser local storage and the *)
(* remote "usecases" table).                                               *)
(*                                                                         *)
(* JavaScript values are tagged records; a JavaScript string is a sequence *)
(* of characters, each character a one-element TLA+ string ("NBSP" stands  *)
(* for U+00A0, a character trim() strips and JSON.parse rejects).          *)
(***************************************************************************)
EXTENDS Integers, Sequences, FiniteSets, TLC

VARIABLES
    normIn,       \* the value handed to the normalization adapter
    normOut,      \* what the adapter call did: idle, or returned / raised
    localStore,   \* localStorage["usecases"]: the list of stored records
    remoteStore,  \* the rows of the remote table "usecases", in insertion order
    now,          \* the clock (Date.now(), milliseconds)
    nextUuid,     \* the remote table's id generator
    last,         \* the last gateway call: operation, arguments, outcome
    pending,      \* the gateway calls in flight, each awaiting its delay or done
    slideshow     \* the state of the UseCaseSlideshow component

vars ==
    <<normIn, normOut, localStore, remoteStore, now, nextUuid, last, pending,
      slideshow>>

----------------------------------------------------------------------------
(* Bounds of the model *)

\* longest string, over Chars, handed to the adapter
MaxStrLen == 4
\* longest list handed to the adapter
MaxArrLen == 2
\* most records either store holds
MaxRecords == 2
\* the clock stops advancing here
MaxClock == 2
\* most gateway calls in one behaviour
MaxCalls == 3
\* most gateway calls in flight at once
MaxConcurrent == 2
\* most use cases the slideshow loads
MaxSlides == 4

----------------------------------------------------------------------------
(* JavaScript values *)

Null == [t |-> "null"]
Undef == [t |-> "undefined"]
Str(s) == [t |-> "string", s |-> s]
Num(n) == [t |-> "number", n |-> n]
Bool(b) == [t |-> "boolean", b |-> b]
\* a plain object, {}
Obj == [t |-> "object", plain |-> TRUE]
\* an object whose conversion to a string throws (Object.create(null), or a
\* toString that throws)
BadObj == [t |-> "object", plain |-> FALSE]
Arr(a) == [t |-> "array", a |-> a]

IsStr(v) == v.t = "string"
IsArr(v) == v.t = "array"

\* JavaScript truthiness (the operand of ||, the filter(Boolean) test)
Truthy(v) ==
    CASE v.t = "null" -> FALSE
      [] v.t = "undefined" -> FALSE
      [] v.t = "string" -> v.s # <<>>
      [] v.t = "number" -> v.n # 0
      [] v.t = "boolean" -> v.b
      [] OTHER -> TRUE

S_null == <<"n", "u", "l", "l">>
S_undefined == <<"u", "n", "d", "e", "f", "i", "n", "e", "d">>
S_true == <<"t", "r", "u", "e">>
S_false == <<"f", "a", "l", "s", "e">>
S_objectObject ==
    <<"[", "o", "b", "j", "e", "c", "t", " ", "O", "b", "j", "e", "c", "t", "]">>

Digits == <<"0", "1", "2", "3", "4", "5", "6", "7", "8", "9">>
IsDigit(c) == \E d \in 1..10 : Digits[d] = c
DigitVal(c) == (CHOOSE d \in 1..10 : Digits[d] = c) - 1

RECURSIVE NatToStr(_)
\* Number.prototype.toString for a natural number below 10^21
NatToStr(n) ==
    IF n < 10 THEN <<Digits[n + 1]>>
    ELSE NatToStr(n \div 10) \o <<Digits[(n % 10) + 1]>>

RECURSIVE StrToNat(_)
StrToNat(s) ==
    IF s = <<>> THEN 0
    ELSE 10 * StrToNat(SubSeq(s, 1, Len(s) - 1)) + DigitVal(s[Len(s)])

RECURSIVE StringThrows(_)
\* whether String(v) throws a TypeError
StringThrows(v) ==
    CASE v.t = "object" -> ~v.plain
      [] v.t = "array" -> \E i \in 1..Len(v.a) : StringThrows(v.a[i])
      [] OTHER -> FALSE

RECURSIVE ToStr(_)
RECURSIVE JoinComma(_)
\* Array.prototype.join(","): null and undefined elements give the empty string
JoinComma(a) ==
    IF a = <<>> THEN <<>>
    ELSE LET h == IF a[1].t \in {"null", "undefined"} THEN <<>> ELSE ToStr(a[1])
         IN IF Len(a) = 1 THEN h ELSE h \o <<",">> \o JoinComma(Tail(a))

\* String(v), the characters, for a v whose conversion does not throw
ToStr(v) ==
    CASE v.t = "null" -> S_null
      [] v.t = "undefined" -> S_undefined
      [] v.t = "string" -> v.s
      [] v.t = "number" -> NatToStr(v.n)
      [] v.t = "boolean" -> (IF v.b THEN S_true ELSE S_false)
      [] v.t = "object" -> S_objectObject
      [] v.t = "array" -> JoinComma(v.a)

\* value.map((item) => String(item))
MapString(a) == [i \in 1..Len(a) |-> Str(ToStr(a[i]))]

(* String.prototype.trim *)
TrimWS == {" ", "\t", "\n", "\r", "NBSP"}

RECURSIVE TrimStart(_)
TrimStart(s) ==
    IF s # <<>> /\ s[1] \in TrimWS THEN TrimStart(Tail(s)) ELSE s

RECURSIVE TrimEnd(_)
TrimEnd(s) ==
    IF s # <<>> /\ s[Len(s)] \in TrimWS
    THEN TrimEnd(SubSeq(s, 1, Len(s) - 1))
    ELSE s

Trim(s) == TrimEnd(TrimStart(s))

StartsWith(s, c) == s # <<>> /\ s[1] = c
EndsWith(s, c) == s # <<>> /\ s[Len(s)] = c

----------------------------------------------------------------------------
(* JSON.parse, for texts without a backslash, a control character, a sign, *)
(* a fraction or an exponent                                               *)

JsonWS == {" ", "\t", "\n", "\r"}

RECURSIVE SkipWs(_, _)
SkipWs(s, i) ==
    IF i <= Len(s) /\ s[i] \in JsonWS THEN SkipWs(s, i + 1) ELSE i

RECURSIVE DigitsEnd(_, _)
\* the position after the run of digits that starts at i
DigitsEnd(s, i) ==
    IF i <= Len(s) /\ IsDigit(s[i]) THEN DigitsEnd(s, i + 1) ELSE i

RECURSIVE QuoteAt(_, _)
\* the position of the first double quote at or after i, Len(s) + 1 if none
QuoteAt(s, i) ==
    IF i <= Len(s) /\ s[i] # "\"" THEN QuoteAt(s, i + 1) ELSE i

ParseFail == [ok |-> FALSE]
ParseOk(v, p) == [ok |-> TRUE, val |-> v, pos |-> p]

HasAt(s, i, w) == i + Len(w) - 1 <= Len(s) /\ SubSeq(s, i, i + Len(w) - 1) = w

RECURSIVE ParseValue(_, _)
RECURSIVE ParseElements(_, _, _)

\* one JSON value starting at position i (no leading whitespace)
ParseValue(s, i) ==
    IF i > Len(s) THEN ParseFail
    ELSE IF s[i] = "[" THEN
        LET j == SkipWs(s, i + 1)
        IN IF j <= Len(s) /\ s[j] = "]" THEN ParseOk(Arr(<<>>), j + 1)
           ELSE ParseElements(s, j, <<>>)
    ELSE IF s[i] = "\"" THEN
        LET j == QuoteAt(s, i + 1)
        IN IF j > Len(s) THEN ParseFail
           ELSE ParseOk(Str(SubSeq(s, i + 1, j - 1)), j + 1)
    ELSE IF s[i] = "0" THEN ParseOk(Num(0), i + 1)
    ELSE IF IsDigit(s[i]) THEN
        LET j == DigitsEnd(s, i)
        IN ParseOk(Num(StrToNat(SubSeq(s, i, j - 1))), j)
    ELSE IF HasAt(s, i, S_true) THEN ParseOk(Bool(TRUE), i + 4)
    ELSE IF HasAt(s, i, S_false) THEN ParseOk(Bool(FALSE), i + 5)
    ELSE IF HasAt(s, i, S_null) THEN ParseOk(Null, i + 4)
    ELSE ParseFail

\* the elements of a list from position i on, acc the elements read so far
ParseElements(s, i, acc) ==
    LET r == ParseValue(s, i)
    IN IF ~r.ok THEN ParseFail
       ELSE LET k == SkipWs(s, r.pos)
            IN IF k > Len(s) THEN ParseFail
               ELSE IF s[k] = "]" THEN ParseOk(Arr(Append(acc, r.val)), k + 1)
               ELSE IF s[k] = "," THEN
                   ParseElements(s, SkipWs(s, k + 1), Append(acc, r.val))
               ELSE ParseFail

\* JSON.parse(s): [ok |-> FALSE] stands for the SyntaxError
\* the parse is one of the whole text: only whitespace follows the value
ParsedWhole(s, r) ==
    IF r.ok /\ SkipWs(s, r.pos) = Len(s) + 1
    THEN [ok |-> TRUE, val |-> r.val]
    ELSE ParseFail
JSONparse(s) == ParsedWhole(s, ParseValue(s, SkipWs(s, 1)))

----------------------------------------------------------------------------
(* The normalization adapter *)

\* what a call gives its caller: a value, or an exception
Returned(v) == [raised |-> FALSE, value |-> v]
Raised == [raised |-> TRUE]

\* debugValue evaluates String(value) for its log line: it throws where
\* String(value) throws
debugValueThrows(value) == StringThrows(value)

\* value === null || value === undefined
isNullOrUndefined_OnlyNull(value) == value.t = "null"
isNullOrUndefined(value) == value.t \in {"null", "undefined"}

\* Array.isArray(value): value.map((item) => String(item))
arrayBranch_DropFirst(value) ==
    IF \E i \in 1..Len(value.a) : StringThrows(value.a[i])
    THEN Raised
    ELSE Returned(IF value.a = <<>> THEN <<>> ELSE Tail(MapString(value.a)))
arrayBranch_DropEmpty(value) ==
    IF \E i \in 1..Len(value.a) : StringThrows(value.a[i])
    THEN Raised
    ELSE Returned(SelectSeq(MapString(value.a), LAMBDA e : e.s # <<>>))
arrayBranch(value) ==
    IF \E i \in 1..Len(value.a) : StringThrows(value.a[i])
    THEN Raised
    ELSE Returned(MapString(value.a))

\* typeof value === "string": a bracket-delimited text is parsed as JSON
\* what follows JSON.parse(value): the parsed list element by element, the
\* string form of a parsed non-list, [fallback] after a parse error
parsedBranch(value, parsed, fallback) ==
    IF ~parsed.ok THEN Returned(<<fallback>>)
    ELSE IF IsArr(parsed.val)
         THEN Returned(MapString(parsed.val.a))
         ELSE Returned(<<Str(ToStr(value))>>)
stringBranch_Trimmed(value) ==
    IF StartsWith(Trim(value.s), "[") /\ EndsWith(Trim(value.s), "]")
    THEN parsedBranch(value, JSONparse(value.s), Str(Trim(value.s)))
    ELSE Returned(<<value>>)
stringBranch(value) ==
    IF StartsWith(Trim(value.s), "[") /\ EndsWith(Trim(value.s), "]")
    THEN parsedBranch(value, JSONparse(value.s), value)
    ELSE Returned(<<value>>)

\* an object, or any other type: [String(value)]
otherBranch_NoString(value) == Returned(<<value>>)
otherBranch(value) ==
    IF StringThrows(value) THEN Raised ELSE Returned(<<Str(ToStr(value))>>)

\* the body of safeEnsureArray's try block
safeEnsureArrayTry(value) ==
    IF debugValueThrows(value) THEN Raised
    ELSE IF isNullOrUndefined(value) THEN Returned(<<>>)
    ELSE IF IsArr(value) THEN arrayBranch(value)
    ELSE IF IsStr(value) THEN stringBranch(value)
    ELSE otherBranch(value)

\* safeEnsureArray(value, fieldName): the try block, and the catch that turns
\* an exception into the empty list
safeEnsureArray_NoCatch(value, fieldName) == safeEnsureArrayTry(value)
safeEnsureArrayCatch(r) == IF r.raised THEN Returned(<<>>) ELSE r
safeEnsureArray(value, fieldName) == safeEnsureArrayCatch(safeEnsureArrayTry(value))

ensureArray(value) == safeEnsureArray(value, "unknown")

----------------------------------------------------------------------------
(* The adapter on its own: every bounded input, one call *)

Chars == {"[", "]", "\"", ",", " ", "a", "1"}

\* every string over Chars of at most MaxStrLen characters
BoundedStrings == UNION {[1..k -> Chars] : k \in 0..MaxStrLen}

\* longer texts: the examples of the specification, and the shapes the
\* bounded strings are too short for
ExtraStrings ==
    { <<"[", "\"", "x", "\"", ",", "\"", "y", "\"", "]">>,
      <<"[", "\"", "a", "\"", ",", " ", "\"", "a", "\"", "]">>,
      <<"[", "n", "o", "t", " ", "v", "a", "l", "i", "d", " ", "j", "s", "o", "n">>,
      <<"[", "n", "o", "t", " ", "v", "a", "l", "i", "d", "]">>,
      <<"p", "l", "a", "i", "n">>,
      <<"[", "t", "r", "u", "e", ",", "n", "u", "l", "l", ",", "4", "2", "]">>,
      <<"[", "0", "1", "]">>,
      <<"[", "[", "1", ",", "2", "]", ",", "\"", "a", "\"", "]">>,
      <<"NBSP", "[", "1", "]">>,
      <<" ", "[", "\"", "a", "\"", "]", " ">>,
      <<"[", "1", "]", "NBSP">> }

\* the elements of the lists handed to the adapter
ElemValues ==
    { Null, Undef, Str(<<>>), Str(<<"a">>), Str(<<"[", "]">>), Num(42),
      Bool(TRUE), Obj, BadObj, Arr(<<Num(1), Null, Str(<<"a">>)>>) }

BoundedArrays == UNION {[1..k -> ElemValues] : k \in 0..MaxArrLen}

NormInputs ==
    {Null, Undef, Num(0), Num(42), Bool(TRUE), Bool(FALSE), Obj, BadObj}
    \cup {Str(s) : s \in BoundedStrings \cup ExtraStrings}
    \cup {Arr(a) : a \in BoundedArrays}

Labels == {"unknown", "create_industries"}

NormIdle == [pc |-> "idle"]

\* no gateway call yet
NoId == <<"none", 0>>
NoErr == [msg |-> "", id |-> NoId, detail |-> ""]
NoData == [none |-> TRUE]
NoCall ==
    [ n |-> 0, op |-> "none", useLocal |-> TRUE, id |-> NoId, data |-> NoData,
      outcome |-> "none", thrown |-> NoErr, error |-> NoErr, result |-> NoData,
      localReads |-> 0, localWrites |-> 0, remoteCalls |-> 0 ]

\* no gateway call in flight
NoPending == <<>>
\* the slideshow component, not mounted
Unmounted == [mounted |-> FALSE]

NormInit ==
    /\ normIn \in NormInputs
    /\ normOut = NormIdle
    /\ localStore = <<>>
    /\ remoteStore = <<>>
    /\ now = 1
    /\ nextUuid = 1
    /\ last = NoCall
    /\ pending = NoPending
    /\ slideshow = Unmounted

gatewayVars == <<localStore, remoteStore, now, nextUuid, last, pending, slideshow>>

\* a caller calls safeEnsureArray(normIn, label)
CallSafeEnsureArray(label) ==
    /\ normOut = NormIdle
    /\ normOut' =
           [ pc |-> "done", fn |-> "safeEnsureArray", label |-> label,
             res |-> safeEnsureArray(normIn, label) ]
    /\ UNCHANGED <<normIn, gatewayVars>>

\* a caller calls ensureArray(normIn)
CallEnsureArray ==
    /\ normOut = NormIdle
    /\ normOut' =
           [ pc |-> "done", fn |-> "ensureArray", label |-> "unknown",
             res |-> ensureArray(normIn) ]
    /\ UNCHANGED <<normIn, gatewayVars>>

NormNext ==
    \/ \E label \in Labels : CallSafeEnsureArray(label)
    \/ CallEnsureArray

NormSpec == NormInit /\ [][NormNext]_vars

NormDone == normOut.pc = "done"

----------------------------------------------------------------------------
(* The persistence gateway: records, rows, errors *)

\* a text no character-level operation is applied to (a status, a URL, a
\* message) is carried as a one-token string
Text(w) == Str(<<w>>)
EmptyStr == Str(<<>>)

\* new Date().toISOString() at clock value ms
toISOString(ms) == [t |-> "isostring", ms |-> ms]

\* `usecase_${Date.now()}`
LocalId(ms) == <<"usecase_", ms>>
\* the remote table's uuid_generate_v4() default
Uuid(k) == <<"uuid", k>>
\* an id no record has
UnknownId == <<"nonexistent-id", 0>>

PLACEHOLDER_IMAGE_URL ==
    Text("https://images.unsplash.com/photo-1579546929518-9e396f3cc809?w=800&q=80")

\* new Error(msg): the message, the id it names, the backend's detail
Err(msg, id, detail) == [msg |-> msg, id |-> id, detail |-> detail]

\* a || b
Or(a, b) == IF Truthy(a) THEN a ELSE b

\* [x].filter(Boolean)
FilterBoolean(x) == IF Truthy(x) THEN <<x>> ELSE <<>>

\* arr.length > 0 ? arr[0] : ""
FirstOrEmpty(arr) == IF Len(arr) > 0 THEN arr[1] ELSE EmptyStr

\* what a gateway call gives its caller
\*   store': the stores after the call; thrown: the first error raised inside;
\*   error: the error that reaches the caller; result: the value returned
Outcome(local, remote, uuid, thrown, error, result, lr, lw, rc) ==
    [ local |-> local, remote |-> remote, uuid |-> uuid,
      outcome |-> IF error = NoErr THEN "ok" ELSE "error",
      thrown |-> thrown, error |-> error, result |-> result,
      localReads |-> lr, localWrites |-> lw, remoteCalls |-> rc ]

\* the index of the first element of store with this id, 0 if none
\* (findIndex, find)
FindIndex(store, id) ==
    IF \E i \in 1..Len(store) : store[i].id = id
    THEN CHOOSE i \in 1..Len(store) :
             /\ store[i].id = id
             /\ \A j \in 1..(i - 1) : store[j].id # id
    ELSE 0

\* what the active store answers when it fails (the table's error; for the
\* getters also localStorage.getItem or JSON.parse throwing)
BackendError == "backend unavailable"
\* what .single() answers when the query matched no row
NoRowsError == "JSON object requested, multiple (or no) rows returned"

----------------------------------------------------------------------------
(* createUseCase *)

\* the required-field checks, in the order the code makes them: the message
\* of the first that fails, "" when all pass
createValidationError_ListsFirst(data) ==
    IF safeEnsureArray(data.industries, "create_industries").value = <<>>
    THEN "At least one industry is required"
    ELSE IF safeEnsureArray(data.categories, "create_categories").value = <<>>
    THEN "At least one category is required"
    ELSE IF Trim(data.title.s) = <<>> THEN "Title is required"
    ELSE IF Trim(data.description.s) = <<>> THEN "Description is required"
    ELSE IF Trim(data.content.s) = <<>> THEN "Content is required"
    ELSE ""
createValidationError_ContentUnchecked(data) ==
    IF Trim(data.title.s) = <<>> THEN "Title is required"
    ELSE IF Trim(data.description.s) = <<>> THEN "Description is required"
    ELSE IF safeEnsureArray(data.industries, "create_industries").value = <<>>
    THEN "At least one industry is required"
    ELSE IF safeEnsureArray(data.categories, "create_categories").value = <<>>
    THEN "At least one category is required"
    ELSE ""
createValidationError(data) ==
    IF Trim(data.title.s) = <<>> THEN "Title is required"
    ELSE IF Trim(data.description.s) = <<>> THEN "Description is required"
    ELSE IF Trim(data.content.s) = <<>> THEN "Content is required"
    ELSE IF safeEnsureArray(data.industries, "create_industries").value = <<>>
    THEN "At least one industry is required"
    ELSE IF safeEnsureArray(data.categories, "create_categories").value = <<>>
    THEN "At least one category is required"
    ELSE ""

\* data.imageUrl || placeholder
createImageUrl_Nullish(data) ==
    IF data.imageUrl \in {Null, Undef} THEN PLACEHOLDER_IMAGE_URL ELSE data.imageUrl
createImageUrl(data) == Or(data.imageUrl, PLACEHOLDER_IMAGE_URL)

\* the record the local branch builds and pushes
newUseCase_LastAsPrimary(data) ==
    LET industriesArray == safeEnsureArray(data.industries, "create_industries").value
        categoriesArray == safeEnsureArray(data.categories, "create_categories").value
    IN [ id |-> LocalId(now),
         title |-> data.title,
         description |-> data.description,
         content |-> data.content,
         industries |-> Arr(industriesArray),
         categories |-> Arr(categoriesArray),
         industry |-> industriesArray[Len(industriesArray)],
         category |-> categoriesArray[Len(categoriesArray)],
         imageUrl |-> createImageUrl(data),
         status |-> data.status,
         createdAt |-> toISOString(now),
         updatedAt |-> toISOString(now) ]
newUseCase(data) ==
    LET industriesArray == safeEnsureArray(data.industries, "create_industries").value
        categoriesArray == safeEnsureArray(data.categories, "create_categories").value
    IN [ id |-> LocalId(now),
         title |-> data.title,
         description |-> data.description,
         content |-> data.content,
         industries |-> Arr(industriesArray),
         categories |-> Arr(categoriesArray),
         industry |-> FirstOrEmpty(industriesArray),
         category |-> FirstOrEmpty(categoriesArray),
         imageUrl |-> createImageUrl(data),
         status |-> data.status,
         createdAt |-> toISOString(now),
         updatedAt |-> toISOString(now) ]

\* the row the remote branch sends to insert()
createDbData(data) ==
    LET industriesArray == safeEnsureArray(data.industries, "create_industries").value
        categoriesArray == safeEnsureArray(data.categories, "create_categories").value
    IN [ title |-> Str(ToStr(data.title)),
         description |-> Str(ToStr(data.description)),
         content |-> Str(ToStr(data.content)),
         industry |-> Str(ToStr(FirstOrEmpty(industriesArray))),
         category |-> Str(ToStr(FirstOrEmpty(categoriesArray))),
         industries |-> Arr(industriesArray),
         categories |-> Arr(categoriesArray),
         image_url |-> Str(ToStr(createImageUrl(data))),
         status |-> Str(ToStr(data.status)),
         created_at |-> toISOString(now),
         updated_at |-> toISOString(now) ]

\* the remote table's insert: the row as sent, with the generated id
insertedRow(dbData) ==
    [ id |-> Uuid(nextUuid),
      title |-> dbData.title,
      description |-> dbData.description,
      content |-> dbData.content,
      industry |-> dbData.industry,
      category |-> dbData.category,
      industries |-> dbData.industries,
      categories |-> dbData.categories,
      image_url |-> dbData.image_url,
      status |-> dbData.status,
      created_at |-> dbData.created_at,
      updated_at |-> dbData.updated_at ]

\* the entity createUseCase builds from the row insert() returned
createResult(useCaseData) ==
    [ id |-> useCaseData.id,
      title |-> useCaseData.title,
      description |-> useCaseData.description,
      content |-> useCaseData.content,
      industry |-> Or(useCaseData.industry, EmptyStr),
      category |-> Or(useCaseData.category, EmptyStr),
      industries |->
          Arr(safeEnsureArray(useCaseData.industries, "returned_create_industries").value),
      categories |->
          Arr(safeEnsureArray(useCaseData.categories, "returned_create_categories").value),
      imageUrl |-> useCaseData.image_url,
      status |-> useCaseData.status,
      createdAt |-> useCaseData.created_at,
      updatedAt |-> useCaseData.updated_at ]

\* a failed check throws before either store is touched; the outer catch
\* raises a new error with the same message
createRejected_AfterRead(invalid) ==
    Outcome(localStore, remoteStore, nextUuid, Err(invalid, NoId, ""),
            Err(invalid, NoId, ""), NoData, 1, 0, 0)
createRejected(invalid) ==
    Outcome(localStore, remoteStore, nextUuid, Err(invalid, NoId, ""),
            Err(invalid, NoId, ""), NoData, 0, 0, 0)

CreateFailed(detail) == Err("Failed to create use case: ", NoId, detail)

\* createUseCase(data) with the backend predicate answering useLocal and the
\* remote store failing or not
createUseCase(data, useLocal, dbFails) ==
    LET invalid == createValidationError(data)
    IN IF invalid # "" THEN createRejected(invalid)
       ELSE IF useLocal
       THEN Outcome(Append(localStore, newUseCase(data)), remoteStore, nextUuid,
                    NoErr, NoErr, newUseCase(data), 1, 1, 0)
       ELSE IF dbFails
       THEN Outcome(localStore, remoteStore, nextUuid, CreateFailed(BackendError),
                    CreateFailed(BackendError), NoData, 0, 0, 1)
       ELSE LET row == insertedRow(createDbData(data))
            IN Outcome(localStore, Append(remoteStore, row), nextUuid + 1,
                       NoErr, NoErr, createResult(row), 0, 0, 1)

----------------------------------------------------------------------------
(* updateUseCase *)

\* data.f !== undefined
Supplied(v) == v # Undef

NotFound(id) == Err("Use case with ID not found", id, "")

\* the record the local branch writes back in place of useCase
updatedUseCase_MergeLists(useCase, data) ==
    LET oldIndustries ==
            safeEnsureArray(Or(useCase.industries, Arr(<<>>)), "existing_industries").value
        oldCategories ==
            safeEnsureArray(Or(useCase.categories, Arr(<<>>)), "existing_categories").value
        industriesArray ==
            IF Supplied(data.industries)
            THEN oldIndustries \o safeEnsureArray(data.industries, "new_industries").value
            ELSE oldIndustries
        categoriesArray ==
            IF Supplied(data.categories)
            THEN oldCategories \o safeEnsureArray(data.categories, "new_categories").value
            ELSE oldCategories
    IN [ useCase EXCEPT
           !.title = IF Supplied(data.title) THEN data.title ELSE @,
           !.description = IF Supplied(data.description) THEN data.description ELSE @,
           !.content = IF Supplied(data.content) THEN data.content ELSE @,
           !.industries = Arr(industriesArray),
           !.categories = Arr(categoriesArray),
           !.industry = FirstOrEmpty(industriesArray),
           !.category = FirstOrEmpty(categoriesArray),
           !.imageUrl = IF Supplied(data.imageUrl) THEN data.imageUrl ELSE @,
           !.status = IF Supplied(data.status) THEN data.status ELSE @,
           !.updatedAt = toISOString(now) ]
updatedUseCase(useCase, data) ==
    LET industriesArray ==
            IF Supplied(data.industries)
            THEN safeEnsureArray(data.industries, "new_industries").value
            ELSE safeEnsureArray(Or(useCase.industries, Arr(<<>>)),
                                 "existing_industries").value
        categoriesArray ==
            IF Supplied(data.categories)
            THEN safeEnsureArray(data.categories, "new_categories").value
            ELSE safeEnsureArray(Or(useCase.categories, Arr(<<>>)),
                                 "existing_categories").value
    IN [ useCase EXCEPT
           !.title = IF Supplied(data.title) THEN data.title ELSE @,
           !.description = IF Supplied(data.description) THEN data.description ELSE @,
           !.content = IF Supplied(data.content) THEN data.content ELSE @,
           !.industries = Arr(industriesArray),
           !.categories = Arr(categoriesArray),
           !.industry = FirstOrEmpty(industriesArray),
           !.category = FirstOrEmpty(categoriesArray),
           !.imageUrl = IF Supplied(data.imageUrl) THEN data.imageUrl ELSE @,
           !.status = IF Supplied(data.status) THEN data.status ELSE @,
           !.updatedAt = toISOString(now) ]

\* the remote table's update: the columns of updateData replace the row's
updatedRow_StampKept(row, data) ==
    LET industriesArray == safeEnsureArray(data.industries, "industries_to_update").value
        categoriesArray == safeEnsureArray(data.categories, "categories_to_update").value
    IN [ row EXCEPT
           !.title = IF Supplied(data.title) THEN data.title ELSE @,
           !.description = IF Supplied(data.description) THEN data.description ELSE @,
           !.content = IF Supplied(data.content) THEN data.content ELSE @,
           !.industries = IF Supplied(data.industries) THEN Arr(industriesArray) ELSE @,
           !.industry =
               IF Supplied(data.industries) THEN FirstOrEmpty(industriesArray) ELSE @,
           !.categories = IF Supplied(data.categories) THEN Arr(categoriesArray) ELSE @,
           !.category =
               IF Supplied(data.categories) THEN FirstOrEmpty(categoriesArray) ELSE @,
           !.image_url = IF Supplied(data.imageUrl) THEN data.imageUrl ELSE @,
           !.status = IF Supplied(data.status) THEN data.status ELSE @ ]
updatedRow(row, data) ==
    LET industriesArray == safeEnsureArray(data.industries, "industries_to_update").value
        categoriesArray == safeEnsureArray(data.categories, "categories_to_update").value
    IN [ row EXCEPT
           !.updated_at = toISOString(now),
           !.title = IF Supplied(data.title) THEN data.title ELSE @,
           !.description = IF Supplied(data.description) THEN data.description ELSE @,
           !.content = IF Supplied(data.content) THEN data.content ELSE @,
           !.industries = IF Supplied(data.industries) THEN Arr(industriesArray) ELSE @,
           !.industry =
               IF Supplied(data.industries) THEN FirstOrEmpty(industriesArray) ELSE @,
           !.categories = IF Supplied(data.categories) THEN Arr(categoriesArray) ELSE @,
           !.category =
               IF Supplied(data.categories) THEN FirstOrEmpty(categoriesArray) ELSE @,
           !.image_url = IF Supplied(data.imageUrl) THEN data.imageUrl ELSE @,
           !.status = IF Supplied(data.status) THEN data.status ELSE @ ]

\* the entity updateUseCase builds from the row update() returned
updateResult(useCaseData) ==
    [ id |-> useCaseData.id,
      title |-> Or(useCaseData.title, EmptyStr),
      description |-> Or(useCaseData.description, EmptyStr),
      content |-> Or(useCaseData.content, EmptyStr),
      industry |-> Or(useCaseData.industry, EmptyStr),
      category |-> Or(useCaseData.category, EmptyStr),
      industries |->
          Arr(safeEnsureArray(useCaseData.industries, "returned_industries").value),
      categories |->
          Arr(safeEnsureArray(useCaseData.categories, "returned_categories").value),
      imageUrl |-> Or(useCaseData.image_url, EmptyStr),
      status |-> Or(useCaseData.status, Text("draft")),
      createdAt |-> Or(useCaseData.created_at, toISOString(now)),
      updatedAt |-> Or(useCaseData.updated_at, toISOString(now)) ]

UpdateFailed(detail) == Err("Failed to update use case: ", NoId, detail)

\* the outer catch of updateUseCase: a new error with the message of the one
\* caught
updateRethrown_Generic(error) == Err("Failed to update use case with ID", error.id, "")
updateRethrown(error) == error

updateUseCase(id, data, useLocal, dbFails) ==
    IF useLocal
    THEN LET useCaseIndex == FindIndex(localStore, id)
         IN IF useCaseIndex = 0
            THEN Outcome(localStore, remoteStore, nextUuid, NotFound(id),
                         updateRethrown(NotFound(id)), NoData, 1, 0, 0)
            ELSE LET updated == updatedUseCase(localStore[useCaseIndex], data)
                 IN Outcome([localStore EXCEPT ![useCaseIndex] = updated],
                            remoteStore, nextUuid, NoErr, NoErr, updated, 1, 1, 0)
    ELSE IF dbFails
    THEN Outcome(localStore, remoteStore, nextUuid, UpdateFailed(BackendError),
                 updateRethrown(UpdateFailed(BackendError)), NoData, 0, 0, 1)
    ELSE LET i == FindIndex(remoteStore, id)
         IN IF i = 0
            THEN Outcome(localStore, remoteStore, nextUuid,
                         UpdateFailed(NoRowsError),
                         updateRethrown(UpdateFailed(NoRowsError)), NoData, 0, 0, 1)
            ELSE LET row == updatedRow(remoteStore[i], data)
                 IN Outcome(localStore, [remoteStore EXCEPT ![i] = row], nextUuid,
                            NoErr, NoErr, updateResult(row), 0, 0, 1)

----------------------------------------------------------------------------
(* deleteUseCase *)

\* the error the outer catch of deleteUseCase raises, whatever was thrown
DeleteFailed(id) == Err("Failed to delete use case with ID", id, "")

\* useCases.filter((useCase) => useCase.id !== id)
WithoutId(store, id) == SelectSeq(store, LAMBDA useCase : useCase.id # id)

deleteUseCase_BothStores(id, useLocal, dbFails) ==
    IF dbFails
    THEN Outcome(localStore, remoteStore, nextUuid,
                 Err("Failed to delete use case: ", NoId, BackendError),
                 DeleteFailed(id), NoData, 0, 0, 1)
    ELSE Outcome(WithoutId(localStore, id), WithoutId(remoteStore, id), nextUuid,
                 NoErr, NoErr, NoData, 1, 1, 1)
deleteUseCase(id, useLocal, dbFails) ==
    IF useLocal
    THEN LET updatedUseCases == WithoutId(localStore, id)
         IN IF Len(localStore) = Len(updatedUseCases)
            THEN Outcome(localStore, remoteStore, nextUuid, NotFound(id),
                         DeleteFailed(id), NoData, 1, 0, 0)
            ELSE Outcome(updatedUseCases, remoteStore, nextUuid, NoErr, NoErr,
                         NoData, 1, 1, 0)
    ELSE IF dbFails
    THEN Outcome(localStore, remoteStore, nextUuid,
                 Err("Failed to delete use case: ", NoId, BackendError),
                 DeleteFailed(id), NoData, 0, 0, 1)
    ELSE Outcome(localStore, WithoutId(remoteStore, id), nextUuid, NoErr, NoErr,
                 NoData, 0, 0, 1)

----------------------------------------------------------------------------
(* getUseCases and getUseCaseById *)

\* the value a getter returns: the list of getUseCases
Listed(entities) == [list |-> entities]

\* the entity getUseCases makes of a record of the local store
normalizedUseCase(useCase) ==
    [ useCase EXCEPT
        !.industries =
            IF Len(ensureArray(useCase.industries).value) > 0
            THEN Arr(ensureArray(useCase.industries).value)
            ELSE Arr(FilterBoolean(useCase.industry)),
        !.categories =
            IF Len(ensureArray(useCase.categories).value) > 0
            THEN Arr(ensureArray(useCase.categories).value)
            ELSE Arr(FilterBoolean(useCase.category)) ]

\* the entity getUseCases makes of a row of the remote table
listedRow(useCase) ==
    LET parsedIndustries == ensureArray(useCase.industries).value
        parsedCategories == ensureArray(useCase.categories).value
        industries ==
            IF Len(parsedIndustries) = 0 /\ Truthy(useCase.industry)
            THEN <<useCase.industry>> ELSE parsedIndustries
        categories ==
            IF Len(parsedCategories) = 0 /\ Truthy(useCase.category)
            THEN <<useCase.category>> ELSE parsedCategories
    IN [ id |-> useCase.id,
         title |-> useCase.title,
         description |-> useCase.description,
         content |-> useCase.content,
         industry |-> Or(useCase.industry, FirstOrEmpty(industries)),
         category |-> Or(useCase.category, FirstOrEmpty(categories)),
         industries |-> Arr(industries),
         categories |-> Arr(categories),
         imageUrl |-> useCase.image_url,
         status |-> useCase.status,
         createdAt |-> useCase.created_at,
         updatedAt |-> useCase.updated_at ]

\* .order("created_at", { ascending: false }): the rows, latest first; rows
\* of one creation time in the order the table holds them
OrderedAsStored(rows, ms) == rows
RECURSIVE OrderedByCreatedAtDesc(_, _)
OrderedByCreatedAtDesc(rows, ms) ==
    IF ms < 0 THEN <<>>
    ELSE SelectSeq(rows, LAMBDA row : row.created_at.ms = ms)
             \o OrderedByCreatedAtDesc(rows, ms - 1)

\* useCases.map(...) on the local store
normalizedUseCases(useCases) ==
    [i \in 1..Len(useCases) |-> normalizedUseCase(useCases[i])]

\* (data || []).map(...) on the rows the table returned
listedRows(data) == [i \in 1..Len(data) |-> listedRow(data[i])]

\* the error the outer catch of getUseCases raises, whatever was thrown
FetchAllFailed_Raw == Err(BackendError, NoId, "")
FetchAllFailed == Err("Failed to fetch use cases", NoId, "")

getUseCases(useLocal, dbFails) ==
    IF useLocal /\ dbFails
    THEN Outcome(localStore, remoteStore, nextUuid, Err(BackendError, NoId, ""),
                 FetchAllFailed, NoData, 1, 0, 0)
    ELSE IF useLocal
    THEN Outcome(localStore, remoteStore, nextUuid, NoErr, NoErr,
                 Listed(normalizedUseCases(localStore)), 1, 0, 0)
    ELSE IF dbFails
    THEN Outcome(localStore, remoteStore, nextUuid, Err(BackendError, NoId, ""),
                 FetchAllFailed, NoData, 0, 0, 1)
    ELSE Outcome(localStore, remoteStore, nextUuid, NoErr, NoErr,
                 Listed(listedRows(OrderedByCreatedAtDesc(remoteStore, MaxClock))),
                 0, 0, 1)

\* the entity getUseCaseById makes of the record found in the local store
foundUseCase(useCase) ==
    LET industriesArray ==
            safeEnsureArray(useCase.industries, "localstorage_get_industries").value
        categoriesArray ==
            safeEnsureArray(useCase.categories, "localstorage_get_categories").value
    IN [ useCase EXCEPT
           !.industries =
               IF Len(industriesArray) > 0
               THEN Arr(industriesArray)
               ELSE Arr(FilterBoolean(useCase.industry)),
           !.categories =
               IF Len(categoriesArray) > 0
               THEN Arr(categoriesArray)
               ELSE Arr(FilterBoolean(useCase.category)) ]

\* the entity getUseCaseById makes of the row the remote table returned
fetchedRow(data) ==
    LET industriesArray ==
            safeEnsureArray(data.industries, "supabase_get_industries").value
        categoriesArray ==
            safeEnsureArray(data.categories, "supabase_get_categories").value
    IN [ id |-> data.id,
         title |-> Or(data.title, EmptyStr),
         description |-> Or(data.description, EmptyStr),
         content |-> Or(data.content, EmptyStr),
         industry |-> Or(data.industry, FirstOrEmpty(industriesArray)),
         category |-> Or(data.category, FirstOrEmpty(categoriesArray)),
         industries |-> Arr(industriesArray),
         categories |-> Arr(categoriesArray),
         imageUrl |-> Or(data.image_url, EmptyStr),
         status |-> Or(data.status, Text("draft")),
         createdAt |-> Or(data.created_at, toISOString(now)),
         updatedAt |-> Or(data.updated_at, toISOString(now)) ]

\* the error the outer catch of getUseCaseById raises, whatever was thrown
FetchFailed(id) == Err("Failed to fetch use case with ID", id, "")

\* what .eq("id", id).single() answers for an id no row has: an error, and
\* no data
singleOfNoRow(id) ==
    Outcome(localStore, remoteStore, nextUuid, Err(NoRowsError, NoId, ""),
            FetchFailed(id), NoData, 0, 0, 1)

getUseCaseById(id, useLocal, dbFails) ==
    IF useLocal /\ dbFails
    THEN Outcome(localStore, remoteStore, nextUuid, Err(BackendError, NoId, ""),
                 FetchFailed(id), NoData, 1, 0, 0)
    ELSE IF useLocal
    THEN LET i == FindIndex(localStore, id)
         IN Outcome(localStore, remoteStore, nextUuid, NoErr, NoErr,
                    IF i = 0 THEN Null ELSE foundUseCase(localStore[i]), 1, 0, 0)
    ELSE IF dbFails
    THEN Outcome(localStore, remoteStore, nextUuid, Err(BackendError, NoId, ""),
                 FetchFailed(id), NoData, 0, 0, 1)
    ELSE LET i == FindIndex(remoteStore, id)
         IN IF i = 0
            THEN singleOfNoRow(id)
            ELSE Outcome(localStore, remoteStore, nextUuid, NoErr, NoErr,
                         fetchedRow(remoteStore[i]), 0, 0, 1)

----------------------------------------------------------------------------
(* The gateway as a state machine *)

\* useLocalStorageFallback(): evaluated once per call, either answer
useLocalStorageFallback == BOOLEAN

T_a == Str(<<"a">>)
T_b == Str(<<" ", "b">>)
T_blank == Str(<<" ">>)
Finance == Str(<<"F">>)
Retail == Str(<<"R">>)
Cat == Str(<<"C">>)
NewCat == Str(<<"N">>)
\* the text ["R","F"]
JsonListText == Str(<<"[", "\"", "R", "\"", ",", "\"", "F", "\"", "]">>)
\* the text []
JsonEmptyListText == Str(<<"[", "]">>)

\* a record written before the list fields existed: the scalar industry and
\* no industries, the categories as JSON text
LegacyRecord ==
    [ id |-> LocalId(0),
      title |-> Str(<<"o">>),
      description |-> Str(<<"o">>),
      content |-> Str(<<"o">>),
      industry |-> Finance,
      category |-> Cat,
      industries |-> Undef,
      categories |-> Str(<<"[", "\"", "C", "\"", ",", "\"", "D", "\"", "]">>),
      imageUrl |-> Text("old.png"),
      status |-> Text("published"),
      createdAt |-> toISOString(0),
      updatedAt |-> toISOString(0) ]

\* a row written before the list columns were filled: the scalar industry, a
\* null industries, the categories as JSON text
LegacyRow ==
    [ id |-> Uuid(0),
      title |-> Str(<<"o">>),
      description |-> Str(<<"o">>),
      content |-> Str(<<"o">>),
      industry |-> Finance,
      category |-> Cat,
      industries |-> Null,
      categories |-> Str(<<"[", "\"", "C", "\"", ",", "\"", "D", "\"", "]">>),
      image_url |-> Text("old.png"),
      status |-> Text("published"),
      created_at |-> toISOString(0),
      updated_at |-> toISOString(0) ]

Init ==
    /\ normIn = Null
    /\ normOut = NormIdle
    /\ localStore = <<LegacyRecord>>
    /\ remoteStore = <<LegacyRow>>
    /\ now = 1
    /\ nextUuid = 1
    /\ last = NoCall
    /\ pending = NoPending
    /\ slideshow = Unmounted

\* what the call did, as its caller and the stores saw it
CallRecord(op, useLocal, id, data, r) ==
    [ n |-> last.n + 1, op |-> op, useLocal |-> useLocal, id |-> id,
      data |-> data, outcome |-> r.outcome, thrown |-> r.thrown,
      error |-> r.error, result |-> r.result, localReads |-> r.localReads,
      localWrites |-> r.localWrites, remoteCalls |-> r.remoteCalls ]

Commit(op, useLocal, id, data, r) ==
    /\ localStore' = r.local
    /\ remoteStore' = r.remote
    /\ nextUuid' = r.uuid
    /\ last' = CallRecord(op, useLocal, id, data, r)
    /\ UNCHANGED <<now, normIn, normOut, pending, slideshow>>

ActiveStore(useLocal) == IF useLocal THEN localStore ELSE remoteStore

CreateUseCase(data, useLocal, dbFails) ==
    /\ last.n < MaxCalls
    /\ dbFails => ~useLocal
    /\ createValidationError(data) = "" => Len(ActiveStore(useLocal)) < MaxRecords
    /\ Commit("create", useLocal, NoId, data, createUseCase(data, useLocal, dbFails))

UpdateUseCase(id, data, useLocal, dbFails) ==
    /\ last.n < MaxCalls
    /\ dbFails => ~useLocal
    /\ Commit("update", useLocal, id, data, updateUseCase(id, data, useLocal, dbFails))

DeleteUseCase(id, useLocal, dbFails) ==
    /\ last.n < MaxCalls
    /\ dbFails => ~useLocal
    /\ Commit("delete", useLocal, id, NoData, deleteUseCase(id, useLocal, dbFails))

GetUseCases(useLocal, dbFails) ==
    /\ last.n < MaxCalls
    /\ Commit("list", useLocal, NoId, NoData, getUseCases(useLocal, dbFails))

GetUseCaseById(id, useLocal, dbFails) ==
    /\ last.n < MaxCalls
    /\ Commit("get", useLocal, id, NoData, getUseCaseById(id, useLocal, dbFails))

\* time passes
Tick ==
    /\ now < MaxClock
    /\ now' = now + 1
    /\ UNCHANGED <<normIn, normOut, localStore, remoteStore, nextUuid, last, pending,
                   slideshow>>

\* the form a caller fills in
BaseForm ==
    [ title |-> T_a, description |-> T_a, content |-> T_a,
      industries |-> Arr(<<Finance, Retail>>), categories |-> Arr(<<Cat>>),
      imageUrl |-> EmptyStr, status |-> Text("draft") ]

CreateInputs ==
    { BaseForm,
      [BaseForm EXCEPT !.title = T_blank],
      [BaseForm EXCEPT !.industries = Arr(<<>>)],
      [BaseForm EXCEPT !.industries = JsonListText, !.imageUrl = Text("new.png"),
                       !.status = Text("published")],
      [BaseForm EXCEPT !.categories = Arr(<<NewCat, Cat>>), !.imageUrl = Undef,
                       !.status = Text("archived")] }

\* a partial form: Undef where the caller supplies nothing
NoChange ==
    [ title |-> Undef, description |-> Undef, content |-> Undef,
      industries |-> Undef, categories |-> Undef, imageUrl |-> Undef,
      status |-> Undef ]

UpdateInputs ==
    { NoChange,
      [NoChange EXCEPT !.title = T_b],
      [NoChange EXCEPT !.title = T_blank],
      [NoChange EXCEPT !.categories = Arr(<<NewCat>>)],
      [NoChange EXCEPT !.industries = Arr(<<>>)],
      [NoChange EXCEPT !.industries = JsonListText, !.description = T_b],
      [NoChange EXCEPT !.status = Text("archived"), !.imageUrl = Text("new.png")],
      [NoChange EXCEPT !.content = EmptyStr] }

\* the ids a caller can name: those of the active store, the one it named
\* in its last call, and one of no record
KnownIds(useLocal) ==
    {ActiveStore(useLocal)[i].id : i \in 1..Len(ActiveStore(useLocal))}
        \cup ({last.id} \ {NoId}) \cup {UnknownId}

Next ==
    \/ \E data \in CreateInputs, useLocal \in useLocalStorageFallback, dbFails \in BOOLEAN :
           CreateUseCase(data, useLocal, dbFails)
    \/ \E useLocal \in useLocalStorageFallback, dbFails \in BOOLEAN :
           \E id \in KnownIds(useLocal), data \in UpdateInputs :
               UpdateUseCase(id, data, useLocal, dbFails)
    \/ \E useLocal \in useLocalStorageFallback, dbFails \in BOOLEAN :
           \E id \in KnownIds(useLocal) : DeleteUseCase(id, useLocal, dbFails)
    \/ \E useLocal \in useLocalStorageFallback, dbFails \in BOOLEAN :
           GetUseCases(useLocal, dbFails)
    \/ \E useLocal \in useLocalStorageFallback, dbFails \in BOOLEAN :
           \E id \in KnownIds(useLocal) : GetUseCaseById(id, useLocal, dbFails)
    \/ Tick

Spec == Init /\ [][Next]_vars

\* the gateway on first use: localStorage initialized to the empty list, the
\* table just created
EmptyInit ==
    /\ normIn = Null
    /\ normOut = NormIdle
    /\ localStore = <<>>
    /\ remoteStore = <<>>
    /\ now = 1
    /\ nextUuid = 1
    /\ last = NoCall
    /\ pending = NoPending
    /\ slideshow = Unmounted

EmptySpec == EmptyInit /\ [][Next]_vars

----------------------------------------------------------------------------
(* createUseCase on its own: every bounded form, one call *)

FormTexts == {Str(<<>>), T_blank, T_a, T_b}
FormBodies == {Str(<<>>), T_blank, T_a}

FormLists ==
    { Arr(<<>>), Null, Arr(<<Finance, Retail>>), Arr(<<Cat>>), JsonListText,
      JsonEmptyListText, Str(<<"p", "l", "a", "i", "n">>) }

AllForms ==
    [ title : FormTexts, description : FormBodies, content : FormBodies,
      industries : FormLists, categories : FormLists,
      imageUrl : {Undef, EmptyStr, Text("new.png")},
      status : {Text("published")} ]

CreateNext ==
    \/ /\ last.n = 0
       /\ \E data \in AllForms, useLocal \in useLocalStorageFallback, dbFails \in BOOLEAN :
              CreateUseCase(data, useLocal, dbFails)
    \/ last.n = 0 /\ Tick

CreateSpec == Init /\ [][CreateNext]_vars

----------------------------------------------------------------------------
(* Concurrent calls on the local store: a call is invoked, awaits its delay, *)
(* and when the timer fires runs the rest of its body without suspension    *)

Callers == 1..MaxConcurrent

\* a caller that has invoked nothing
IdleCall ==
    [ state |-> "idle", op |-> "none", id |-> NoId, data |-> NoData,
      seen |-> <<>>, outcome |-> "none", result |-> NoData ]

ConcInit ==
    /\ normIn = Null
    /\ normOut = NormIdle
    /\ localStore = <<LegacyRecord>>
    /\ remoteStore = <<LegacyRow>>
    /\ now = 1
    /\ nextUuid = 1
    /\ last = NoCall
    /\ pending = [c \in Callers |-> IdleCall]
    /\ slideshow = Unmounted

\* the call is made: it runs up to its await and is suspended there; seen
\* is the stored list at that moment, which the call has not read
Invoke(c, op, id, data) ==
    /\ pending[c].state = "idle"
    /\ pending' = [pending EXCEPT ![c] =
                      [ state |-> "waiting", op |-> op, id |-> id, data |-> data,
                        seen |-> localStore, outcome |-> "none", result |-> NoData ]]
    /\ UNCHANGED <<normIn, normOut, localStore, remoteStore, now, nextUuid, last,
                   slideshow>>

\* the body after the await, on the local store
resumedBody(call) ==
    CASE call.op = "create" -> createUseCase(call.data, TRUE, FALSE)
      [] call.op = "update" -> updateUseCase(call.id, call.data, TRUE, FALSE)
      [] call.op = "delete" -> deleteUseCase(call.id, TRUE, FALSE)

\* localStorage.setItem(KEY, JSON.stringify(useCases)): the list the body
\* read in this same run, as the body changed it
writeBack_StaleUpdate(c, r) ==
    IF /\ pending[c].op = "update"
       /\ r.outcome = "ok"
       /\ FindIndex(pending[c].seen, pending[c].id) # 0
    THEN [pending[c].seen EXCEPT ![FindIndex(pending[c].seen, pending[c].id)] =
              updatedUseCase(@, pending[c].data)]
    ELSE r.local
writeBack_StaleCreate(c, r) ==
    IF pending[c].op = "create" /\ r.outcome = "ok"
    THEN Append(pending[c].seen, r.result)
    ELSE r.local
writeBack(c, r) == r.local

\* how a resumed call ends
finished(call, r) ==
    [call EXCEPT !.state = "done", !.outcome = r.outcome, !.result = r.result]

\* the timer of call c fires: the body reads the list, changes it and writes
\* it back in one run
Resume(c) ==
    /\ pending[c].state = "waiting"
    /\ localStore' = writeBack(c, resumedBody(pending[c]))
    /\ remoteStore' = resumedBody(pending[c]).remote
    /\ nextUuid' = resumedBody(pending[c]).uuid
    /\ last' = CallRecord(pending[c].op, TRUE, pending[c].id, pending[c].data,
                          resumedBody(pending[c]))
    /\ pending' = [pending EXCEPT ![c] = finished(@, resumedBody(pending[c]))]
    /\ UNCHANGED <<normIn, normOut, now, slideshow>>

\* what the concurrent callers ask for
ConcForms == {BaseForm, [BaseForm EXCEPT !.categories = Arr(<<NewCat, Cat>>)]}
ConcUpdates ==
    {[NoChange EXCEPT !.title = T_b], [NoChange EXCEPT !.description = T_b]}

ConcNext ==
    \/ \E c \in Callers, data \in ConcForms : Invoke(c, "create", NoId, data)
    \/ \E c \in Callers, data \in ConcUpdates :
           Invoke(c, "update", LegacyRecord.id, data)
    \/ \E c \in Callers : Invoke(c, "delete", LegacyRecord.id, NoData)
    \/ \E c \in Callers : Resume(c)
    \/ Tick

ConcSpec == ConcInit /\ [][ConcNext]_vars

----------------------------------------------------------------------------
(* UseCaseSlideshow: the component's state and its handlers *)

\* the state after the first render; handled is the handler that ran last
\* and the index it started from
FirstRender ==
    [ mounted |-> TRUE, length |-> 0, currentIndex |-> 0, isLoading |-> TRUE,
      error |-> FALSE, isAutoPlaying |-> TRUE, direction |-> 1,
      handled |-> [event |-> "mount", from |-> 0] ]

SlideInit ==
    /\ normIn = Null
    /\ normOut = NormIdle
    /\ localStore = <<LegacyRecord>>
    /\ remoteStore = <<LegacyRow>>
    /\ now = 1
    /\ nextUuid = 1
    /\ last = NoCall
    /\ pending = NoPending
    /\ slideshow = FirstRender

slideVars == <<normIn, normOut, localStore, remoteStore, now, nextUuid, last, pending>>

\* the remainder operator of the language: the sign of the dividend
JsRem(a, n) == IF a >= 0 THEN a % n ELSE 0 - ((0 - a) % n)

\* the section is rendered, so its buttons and swipe can be used
Rendered ==
    /\ ~slideshow.isLoading
    /\ ~slideshow.error
    /\ slideshow.length # 0

\* the fetch resolved with n use cases
Loaded(n) ==
    /\ slideshow.isLoading
    /\ slideshow' = [slideshow EXCEPT !.length = n, !.isLoading = FALSE,
                         !.handled = [event |-> "loaded", from |-> slideshow.currentIndex]]
    /\ UNCHANGED slideVars

\* the fetch was rejected
LoadFailed ==
    /\ slideshow.isLoading
    /\ slideshow' = [slideshow EXCEPT !.error = TRUE, !.isLoading = FALSE,
                         !.handled = [event |-> "failed", from |-> slideshow.currentIndex]]
    /\ UNCHANGED slideVars

nextIndex(prev, length) == JsRem(prev + 1, length)

previousIndex_NoOffset(prev, length) == JsRem(prev - 1, length)
previousIndex(prev, length) == JsRem(prev - 1 + length, length)

\* the interval of the auto-play effect fires
AutoPlayTick ==
    /\ slideshow.isAutoPlaying
    /\ slideshow.length # 0
    /\ slideshow' = [slideshow EXCEPT
                         !.direction = 1,
                         !.currentIndex = nextIndex(@, slideshow.length),
                         !.handled = [event |-> "tick", from |-> slideshow.currentIndex]]
    /\ UNCHANGED slideVars

goToNext ==
    /\ Rendered
    /\ slideshow' = [slideshow EXCEPT
                         !.direction = 1,
                         !.currentIndex = nextIndex(@, slideshow.length),
                         !.handled = [event |-> "goToNext", from |-> slideshow.currentIndex]]
    /\ UNCHANGED slideVars

goToPrevious ==
    /\ Rendered
    /\ slideshow' = [slideshow EXCEPT
                         !.direction = -1,
                         !.currentIndex = previousIndex(@, slideshow.length),
                         !.handled = [event |-> "goToPrevious", from |-> slideshow.currentIndex]]
    /\ UNCHANGED slideVars

goToSlide(index) ==
    /\ Rendered
    /\ slideshow' = [slideshow EXCEPT
                         !.direction = IF index > slideshow.currentIndex THEN 1 ELSE -1,
                         !.currentIndex = index,
                         !.handled = [event |-> "goToSlide", from |-> slideshow.currentIndex]]
    /\ UNCHANGED slideVars

toggleAutoPlay ==
    /\ Rendered
    /\ slideshow' = [slideshow EXCEPT
                         !.isAutoPlaying = ~slideshow.isAutoPlaying,
                         !.handled = [event |-> "toggleAutoPlay", from |-> slideshow.currentIndex]]
    /\ UNCHANGED slideVars

SlideNext ==
    \/ \E n \in 0..MaxSlides : Loaded(n)
    \/ LoadFailed
    \/ AutoPlayTick
    \/ goToNext
    \/ goToPrevious
    \/ \E index \in 0..(slideshow.length - 1) : goToSlide(index)
    \/ toggleAutoPlay

SlideSpec == SlideInit /\ [][SlideNext]_vars

----------------------------------------------------------------------------
(* Claims about the normalization adapter, checked under NormSpec *)

NormValue == normOut.res.value

BracketDelimited(s) == StartsWith(Trim(s), "[") /\ EndsWith(Trim(s), "]")

\* C1: for every input and label, safeEnsureArray and ensureArray return to
\* their caller (no exception escapes) a list whose elements are all strings.
C1_ReturnsListOfStrings ==
    NormDone =>
        /\ ~normOut.res.raised
        /\ \A i \in 1..Len(NormValue) : IsStr(NormValue[i])

\* a call whose input makes String() throw inside the try block has returned
C1_Witness ==
    /\ NormDone
    /\ normOut.fn = "ensureArray"
    /\ normIn = Arr(<<Str(<<"a">>), BadObj>>)
    /\ normOut.res = Returned(<<>>)

\* C2: null and undefined both give the empty list.
C2_NullAndUndefinedGiveEmpty ==
    (NormDone /\ normIn \in {Null, Undef}) => normOut.res = Returned(<<>>)

C2_Witness == NormDone /\ normIn = Undef /\ normOut.res = Returned(<<>>)

\* C3 as stated: every list input gives a list of the same length whose i-th
\* element is the string form of the i-th input element.
C3_EveryListMapsElementwise ==
    (NormDone /\ IsArr(normIn)) =>
        /\ ~normOut.res.raised
        /\ Len(NormValue) = Len(normIn.a)
        /\ \A i \in 1..Len(normIn.a) : NormValue[i] = Str(ToStr(normIn.a[i]))

\* C3 as amended: a list whose elements all convert to a string gives the
\* list of their string forms, same length, same order, duplicates and empty
\* strings kept; a list with an element whose conversion throws gives the
\* empty list.
C3_ListMapsElementwiseUnlessThrows ==
    (NormDone /\ IsArr(normIn)) =>
        /\ ~normOut.res.raised
        /\ IF StringThrows(normIn)
           THEN NormValue = <<>>
           ELSE /\ Len(NormValue) = Len(normIn.a)
                /\ \A i \in 1..Len(normIn.a) :
                       NormValue[i] = Str(ToStr(normIn.a[i]))
        /\ normIn = Arr(<<Num(42), Obj>>) =>
               NormValue = <<Str(<<"4", "2">>), Str(S_objectObject)>>
        /\ normIn = Arr(<<Null, Str(<<>>)>>) =>
               NormValue = <<Str(S_null), Str(<<>>)>>

\* a list with a duplicate has come back unchanged
C3_Witness ==
    /\ NormDone
    /\ normIn = Arr(<<Str(<<"a">>), Str(<<"a">>)>>)
    /\ NormValue = <<Str(<<"a">>), Str(<<"a">>)>>

\* C4: a string that is bracket-delimited after trimming gives the parsed
\* elements, each as a string, when it is a valid JSON list, and otherwise the
\* one-element list holding the whole original string.
C4_BracketStringParsedOrWrapped ==
    (NormDone /\ IsStr(normIn) /\ BracketDelimited(normIn.s)) =>
        /\ ~normOut.res.raised
        /\ LET parsed == JSONparse(normIn.s)
           IN IF parsed.ok
              THEN /\ IsArr(parsed.val)
                   /\ NormValue = MapString(parsed.val.a)
              ELSE NormValue = <<normIn>>
        /\ normIn = Str(<<"[", "\"", "x", "\"", ",", "\"", "y", "\"", "]">>) =>
               NormValue = <<Str(<<"x">>), Str(<<"y">>)>>
        /\ normIn = Str(<<"[", "1", "1", "]">>) => NormValue = <<Str(<<"1", "1">>)>>
        /\ normIn = Str(<<"[", "a", "]">>) => NormValue = <<normIn>>
        /\ normIn = Str(<<"[", "]">>) => NormValue = <<>>

\* a text that trim() finds bracket-delimited and JSON.parse rejects has come
\* back whole, untrimmed
C4_Witness ==
    /\ NormDone
    /\ normIn = Str(<<" ", "[", "a", "]">>)
    /\ NormValue = <<Str(<<" ", "[", "a", "]">>)>>

\* the inputs C5 is about
C5_OtherInput ==
    /\ ~isNullOrUndefined(normIn)
    /\ ~IsArr(normIn)
    /\ ~(IsStr(normIn) /\ BracketDelimited(normIn.s))

\* C5 as stated: every other input gives exactly one element, its string
\* representation.
C5_EveryOtherInputWrapped ==
    (NormDone /\ C5_OtherInput) =>
        /\ ~normOut.res.raised
        /\ NormValue = <<Str(ToStr(normIn))>>

\* C5 as amended: every other input whose conversion to a string does not
\* throw gives exactly one element, its string representation; an object
\* whose conversion throws gives the empty list.
C5_OtherInputWrappedUnlessThrows ==
    (NormDone /\ C5_OtherInput) =>
        /\ ~normOut.res.raised
        /\ IF StringThrows(normIn)
           THEN NormValue = <<>>
           ELSE NormValue = <<Str(ToStr(normIn))>>
        /\ normIn = Num(42) => NormValue = <<Str(<<"4", "2">>)>>
        /\ normIn = Obj => NormValue = <<Str(S_objectObject)>>
        /\ normIn = Bool(FALSE) => NormValue = <<Str(S_false)>>
        /\ normIn = Str(<<"p", "l", "a", "i", "n">>) => NormValue = <<normIn>>

C5_Witness ==
    NormDone /\ normIn = Num(42) /\ NormValue = <<Str(<<"4", "2">>)>>

----------------------------------------------------------------------------
(* Claims about createUseCase, updateUseCase and deleteUseCase *)

\* a row of the remote table under the entity's field names
RowAsEntity(row) ==
    [ id |-> row.id, title |-> row.title, description |-> row.description,
      content |-> row.content, industry |-> row.industry,
      category |-> row.category, industries |-> row.industries,
      categories |-> row.categories, imageUrl |-> row.image_url,
      status |-> row.status, createdAt |-> row.created_at,
      updatedAt |-> row.updated_at ]

\* the call that has just returned, in an action formula
Called(op) == last'.n = last.n + 1 /\ last'.op = op

\* the list a value normalizes to
Normalized(v) == safeEnsureArray(v, "unknown").value

BlankText(v) == Trim(v.s) = <<>>

\* the field each validation message cites
ValidationMessages ==
    { "Title is required", "Description is required", "Content is required",
      "At least one industry is required", "At least one category is required" }

\* whether the field the message cites is an offending one
CitedFieldOffends(msg, data) ==
    CASE msg = "Title is required" -> BlankText(data.title)
      [] msg = "Description is required" -> BlankText(data.description)
      [] msg = "Content is required" -> BlankText(data.content)
      [] msg = "At least one industry is required" -> Normalized(data.industries) = <<>>
      [] msg = "At least one category is required" -> Normalized(data.categories) = <<>>
      [] OTHER -> FALSE

FormIsValid(data) ==
    /\ ~BlankText(data.title)
    /\ ~BlankText(data.description)
    /\ ~BlankText(data.content)
    /\ Normalized(data.industries) # <<>>
    /\ Normalized(data.categories) # <<>>

\* C6: createUseCase fails with a validation error that names an offending
\* field whenever title, description or content is blank or industries or
\* categories normalizes to the empty list, and passes validation only when
\* all five conditions hold.
C6_ValidationRejectsNamingField ==
    last.op = "create" =>
        /\ ~FormIsValid(last.data) =>
               /\ last.outcome = "error"
               /\ last.error.msg \in ValidationMessages
               /\ CitedFieldOffends(last.error.msg, last.data)
        /\ FormIsValid(last.data) => last.error.msg \notin ValidationMessages
        /\ BlankText(last.data.title) => last.error.msg = "Title is required"
        /\ (/\ FormIsValid([last.data EXCEPT !.industries = Arr(<<Finance>>)])
            /\ Normalized(last.data.industries) = <<>>)
               => last.error.msg = "At least one industry is required"

\* a form valid but for its empty industries has been rejected, citing the
\* industry
C6_Witness ==
    /\ last.op = "create"
    /\ last.data.industries = Arr(<<>>)
    /\ FormIsValid([last.data EXCEPT !.industries = Arr(<<Finance>>)])
    /\ last.outcome = "error"
    /\ last.error.msg = "At least one industry is required"

\* a call that failed before touching a store: createUseCase on validation,
\* updateUseCase or deleteUseCase on a missing id of the local store
FailedValidation(call) ==
    call.op = "create" /\ call.thrown.msg \in ValidationMessages
FailedNotFoundLocally(call) ==
    /\ call.op \in {"update", "delete"}
    /\ call.useLocal
    /\ call.thrown = NotFound(call.id)

\* C7: a createUseCase that fails validation has read and written neither
\* store; an updateUseCase or deleteUseCase that fails with not-found on the
\* local store leaves the stored list exactly as it was.
C7_NoAccessBeforeEarlyFailure ==
    [][ /\ (last'.n = last.n + 1 /\ FailedValidation(last')) =>
              /\ last'.localReads = 0
              /\ last'.localWrites = 0
              /\ last'.remoteCalls = 0
              /\ localStore' = localStore
              /\ remoteStore' = remoteStore
        /\ (last'.n = last.n + 1 /\ FailedNotFoundLocally(last')) =>
              /\ last'.outcome = "error"
              /\ last'.localWrites = 0
              /\ localStore' = localStore ]_vars

\* an update of a missing id has failed on a local store that holds a record
C7_Witness ==
    /\ last.op = "update"
    /\ FailedNotFoundLocally(last)
    /\ last.outcome = "error"
    /\ Len(localStore) > 0

\* the record a successful createUseCase stored: the last of the store the
\* call used, as an entity
StoredByCreate ==
    IF last.useLocal
    THEN localStore[Len(localStore)]
    ELSE RowAsEntity(remoteStore[Len(remoteStore)])

\* C8: after a successful createUseCase(form) the stored and the returned
\* entity have industries = normalize(form.industries) and categories =
\* normalize(form.categories), and industry and category their first elements.
C8_CreateStoresNormalizedLists ==
    (last.op = "create" /\ last.outcome = "ok") =>
        \A e \in {StoredByCreate, last.result} :
            /\ e.industries = Arr(Normalized(last.data.industries))
            /\ e.categories = Arr(Normalized(last.data.categories))
            /\ e.industry = Normalized(last.data.industries)[1]
            /\ e.category = Normalized(last.data.categories)[1]
            /\ last.data.industries = Arr(<<Finance, Retail>>) =>
                   e.industry = Finance /\ e.industries = Arr(<<Finance, Retail>>)
            /\ last.data.categories = JsonListText =>
                   e.category = Retail /\ e.categories = Arr(<<Retail, Finance>>)

C8_Witness ==
    /\ last.op = "create"
    /\ last.outcome = "ok"
    /\ ~last.useLocal
    /\ last.data.industries = Arr(<<Finance, Retail>>)
    /\ last.result.industry = Finance
    /\ StoredByCreate.industries = Arr(<<Finance, Retail>>)

\* a stored record or row as an entity
AsEntity(useLocal, r) == IF useLocal THEN r ELSE RowAsEntity(r)

\* C9: a successful createUseCase adds exactly one record to the active
\* store and returns it; the record has an id generated by the call (from the
\* clock on the local store, by the table on the remote one), createdAt and
\* updatedAt equal to the time of the call, imageUrl as supplied or the
\* placeholder when none is supplied, and title, description, content and
\* status as supplied; the records stored before, and the other store, are
\* unchanged.
C9_CreateAddsOneRecord ==
    [][ (Called("create") /\ last'.outcome = "ok") =>
          LET useLocal == last'.useLocal
              before == IF useLocal THEN localStore ELSE remoteStore
              after == IF useLocal THEN localStore' ELSE remoteStore'
              stored == AsEntity(useLocal, after[Len(after)])
              data == last'.data
          IN /\ Len(after) = Len(before) + 1
             /\ SubSeq(after, 1, Len(before)) = before
             /\ IF useLocal THEN remoteStore' = remoteStore
                            ELSE localStore' = localStore
             /\ last'.result = stored
             /\ IF useLocal
                THEN stored.id = LocalId(now)
                ELSE /\ stored.id = Uuid(nextUuid)
                     /\ \A i \in 1..Len(before) : before[i].id # stored.id
             /\ stored.createdAt = toISOString(now)
             /\ stored.updatedAt = toISOString(now)
             /\ stored.imageUrl =
                    IF data.imageUrl \in {Undef, EmptyStr}
                    THEN PLACEHOLDER_IMAGE_URL
                    ELSE data.imageUrl
             /\ stored.title = data.title
             /\ stored.description = data.description
             /\ stored.content = data.content
             /\ stored.status = data.status ]_vars

\* a second record has been created, with the placeholder image
C9_Witness ==
    /\ last.op = "create"
    /\ last.outcome = "ok"
    /\ last.useLocal
    /\ Len(localStore) = 2
    /\ last.data.imageUrl = EmptyStr
    /\ last.result.imageUrl = PLACEHOLDER_IMAGE_URL
    /\ localStore[2] = last.result

\* C10 as stated: a successful updateUseCase(id, partial) changes, in the
\* record with that id, only the fields present in partial, updatedAt and the
\* scalar derived from a supplied list; every omitted field, the id and
\* createdAt keep their values, whatever the stored shape of the record, and
\* every other record is unchanged.
C10_UpdateChangesOnlySuppliedFields ==
    [][ (Called("update") /\ last'.outcome = "ok") =>
          LET useLocal == last'.useLocal
              before == IF useLocal THEN localStore ELSE remoteStore
              after == IF useLocal THEN localStore' ELSE remoteStore'
              i == FindIndex(before, last'.id)
              old == AsEntity(useLocal, before[i])
              new == AsEntity(useLocal, after[i])
              data == last'.data
          IN /\ Len(after) = Len(before)
             /\ \A j \in 1..Len(before) : j # i => after[j] = before[j]
             /\ IF useLocal THEN remoteStore' = remoteStore
                            ELSE localStore' = localStore
             /\ new.id = old.id
             /\ new.createdAt = old.createdAt
             /\ ~Supplied(data.title) => new.title = old.title
             /\ ~Supplied(data.description) => new.description = old.description
             /\ ~Supplied(data.content) => new.content = old.content
             /\ ~Supplied(data.imageUrl) => new.imageUrl = old.imageUrl
             /\ ~Supplied(data.status) => new.status = old.status
             /\ ~Supplied(data.industries) =>
                    new.industries = old.industries /\ new.industry = old.industry
             /\ ~Supplied(data.categories) =>
                    new.categories = old.categories /\ new.category = old.category
        ]_vars

\* the entities a store holds
Entities(useLocal, store) == [i \in 1..Len(store) |-> AsEntity(useLocal, store[i])]

\* C11: when a successful updateUseCase is given industries (or categories),
\* the stored and the returned list is the normalized supplied list alone,
\* nothing of the previous list, and the scalar industry (or category) is its
\* first element; a title that was not supplied is unchanged.
C11_SuppliedListReplaces ==
    [][ (Called("update") /\ last'.outcome = "ok") =>
          LET useLocal == last'.useLocal
              before == IF useLocal THEN localStore ELSE remoteStore
              after == IF useLocal THEN localStore' ELSE remoteStore'
              i == FindIndex(before, last'.id)
              old == AsEntity(useLocal, before[i])
              new == AsEntity(useLocal, after[i])
              data == last'.data
          IN \A e \in {new, last'.result} :
                /\ Supplied(data.industries) =>
                       /\ e.industries = Arr(Normalized(data.industries))
                       /\ e.industry = FirstOrEmpty(Normalized(data.industries))
                /\ Supplied(data.categories) =>
                       /\ e.categories = Arr(Normalized(data.categories))
                       /\ e.category = FirstOrEmpty(Normalized(data.categories))
                /\ data.categories = Arr(<<NewCat>>) =>
                       e.categories = Arr(<<NewCat>>) /\ e.category = NewCat
                /\ data.industries = JsonListText =>
                       e.industries = Arr(<<Retail, Finance>>) /\ e.industry = Retail
                /\ ~Supplied(data.title) => e.title = old.title ]_vars

\* a record created with the categories ["C"] has been updated with
\* ["N"] alone
C11_Witness ==
    /\ last.op = "update"
    /\ last.outcome = "ok"
    /\ last.useLocal
    /\ last.id = LocalId(1)
    /\ last.data = [NoChange EXCEPT !.categories = Arr(<<NewCat>>)]
    /\ last.result.title = T_a
    /\ last.result.categories = Arr(<<NewCat>>)
    /\ last.result.category = NewCat
    /\ \E i \in 1..Len(localStore) : localStore[i] = last.result

\* C12: in every step a record keeps its createdAt; every successful
\* updateUseCase, whatever it supplies, leaves updatedAt equal to the time of
\* the call, in the store and in the entity returned; and no record has an
\* updatedAt earlier than its createdAt.
C12_CreatedAtFixedUpdatedAtRefreshed ==
    [][ /\ \A useLocal \in BOOLEAN :
              LET before == Entities(useLocal, IF useLocal THEN localStore ELSE remoteStore)
                  after == Entities(useLocal, IF useLocal THEN localStore' ELSE remoteStore')
              IN /\ \A j \in 1..Len(after) :
                        (\E i \in 1..Len(before) : before[i].id = after[j].id) =>
                            \E i \in 1..Len(before) :
                                /\ before[i].id = after[j].id
                                /\ before[i].createdAt = after[j].createdAt
                 /\ \A j \in 1..Len(after) :
                        after[j].updatedAt.ms >= after[j].createdAt.ms
        /\ (Called("update") /\ last'.outcome = "ok") =>
              LET useLocal == last'.useLocal
                  before == IF useLocal THEN localStore ELSE remoteStore
                  after == IF useLocal THEN localStore' ELSE remoteStore'
                  i == FindIndex(before, last'.id)
                  old == AsEntity(useLocal, before[i])
                  new == AsEntity(useLocal, after[i])
              IN /\ new.createdAt = old.createdAt
                 /\ new.updatedAt = toISOString(now)
                 /\ last'.result.createdAt = old.createdAt
                 /\ last'.result.updatedAt = toISOString(now) ]_vars

\* an update that supplies nothing has refreshed updatedAt, later than
\* createdAt, on the remote store
C12_Witness ==
    /\ last.op = "update"
    /\ last.outcome = "ok"
    /\ ~last.useLocal
    /\ last.data = NoChange
    /\ now = 2
    /\ last.result.createdAt = toISOString(1)
    /\ last.result.updatedAt = toISOString(2)
    /\ \E i \in 1..Len(remoteStore) :
           /\ remoteStore[i].id = last.id
           /\ remoteStore[i].created_at = toISOString(1)
           /\ remoteStore[i].updated_at = toISOString(2)

\* C13: on the local store, updateUseCase(id, partial) for an id no stored
\* record has fails, whatever the partial, with the error whose message says
\* the use case with that id was not found.
C13_LocalUpdateOfMissingIdNotFound ==
    [][ (/\ Called("update")
         /\ last'.useLocal
         /\ \A i \in 1..Len(localStore) : localStore[i].id # last'.id) =>
            /\ last'.outcome = "error"
            /\ last'.error.msg = "Use case with ID not found"
            /\ last'.error.id = last'.id
            /\ last'.result = NoData ]_vars

\* an update that supplies a title, for an id of no record
C13_Witness ==
    /\ last.op = "update"
    /\ last.useLocal
    /\ last.id = UnknownId
    /\ last.data = [NoChange EXCEPT !.title = T_b]
    /\ last.outcome = "error"
    /\ last.error = NotFound(UnknownId)

\* a getter that failed because the backend did
BackendFailed(call) == call.thrown = Err(BackendError, NoId, "")

\* C14 as stated: a successful deleteUseCase(id) leaves no record with that
\* id in the store it used and every other record, and the other store, as
\* they were; and a getUseCaseById(id) that follows it on the same backend,
\* the backend answering, returns null and raises no error.
C14_DeleteThenGetByIdIsAbsent ==
    [][ /\ (Called("delete") /\ last'.outcome = "ok") =>
              LET useLocal == last'.useLocal
                  before == IF useLocal THEN localStore ELSE remoteStore
                  after == IF useLocal THEN localStore' ELSE remoteStore'
              IN /\ \A j \in 1..Len(after) : after[j].id # last'.id
                 /\ after = SelectSeq(before, LAMBDA r : r.id # last'.id)
                 /\ IF useLocal THEN remoteStore' = remoteStore
                                ELSE localStore' = localStore
        /\ (/\ last.op = "delete"
            /\ last.outcome = "ok"
            /\ Called("get")
            /\ last'.id = last.id
            /\ last'.useLocal = last.useLocal
            /\ ~BackendFailed(last')) =>
               /\ last'.outcome = "ok"
               /\ last'.result = Null ]_vars

\* C15 as stated: getUseCaseById(id) returns null and raises no error
\* whenever no record of the active store has that id and the backend
\* answers, on the local store and on the remote one.
C15_GetByIdOfMissingIdIsAbsent ==
    (/\ last.op = "get"
     /\ \A i \in 1..Len(ActiveStore(last.useLocal)) :
            ActiveStore(last.useLocal)[i].id # last.id
     /\ ~BackendFailed(last)) =>
        /\ last.outcome = "ok"
        /\ last.result = Null

\* C16 as stated: on the local store, a deleteUseCase(id) that finds no
\* record with that id fails with an error that tells its caller the use
\* case was not found, an error unlike the one a backend failure gives.
C16_LocalDeleteOfMissingIdSaysNotFound ==
    (/\ last.op = "delete"
     /\ last.useLocal
     /\ last.thrown = NotFound(last.id)) =>
        /\ last.outcome = "error"
        /\ last.error.msg = "Use case with ID not found"
        /\ last.error # DeleteFailed(last.id)

\* the list a stored record holds in a field: no list when the field is
\* none
StoredList(v) == IF IsArr(v) THEN v.a ELSE <<>>

\* the records of both stores, as entities
Persisted ==
    {localStore[i] : i \in 1..Len(localStore)}
        \cup {RowAsEntity(remoteStore[i]) : i \in 1..Len(remoteStore)}

\* C17 as stated: starting from empty stores, every persisted record has at
\* least one element in industries and at least one in categories.
C17_PersistedListsNonEmpty ==
    \A e \in Persisted :
        /\ Len(StoredList(e.industries)) >= 1
        /\ Len(StoredList(e.categories)) >= 1

\* the scalar is the first element of the list, the empty string when the
\* list is empty
PrimaryMatches(scalar, list) ==
    IF Len(list.a) > 0 THEN scalar = list.a[1] ELSE scalar = EmptyStr

\* the entities the last call returned, if it was a getter that returned
ReturnedByGetter ==
    IF last.outcome # "ok" THEN {}
    ELSE IF last.op = "list" THEN {last.result.list[i] : i \in 1..Len(last.result.list)}
    ELSE IF last.op = "get" /\ last.result # Null THEN {last.result}
    ELSE {}

\* C18 as stated: in every persisted record whose list fields hold lists, and
\* in every entity getUseCases or getUseCaseById returns on either backend,
\* industry is the first element of industries and category the first of
\* categories, and the scalar is the empty string when the list is empty.
C18_PrimaryIsFirstOfList ==
    /\ \A e \in Persisted :
           /\ IsArr(e.industries) => PrimaryMatches(e.industry, e.industries)
           /\ IsArr(e.categories) => PrimaryMatches(e.category, e.categories)
    /\ \A e \in ReturnedByGetter :
           /\ PrimaryMatches(e.industry, e.industries)
           /\ PrimaryMatches(e.category, e.categories)

\* C19 as stated: the status of every persisted record is "draft" or
\* "published".
C19_StatusIsDraftOrPublished ==
    \A e \in Persisted : e.status \in {Text("draft"), Text("published")}

\* C20 as stated: title, description and content of every persisted record
\* are non-empty after trimming.
C20_RequiredTextsNonBlank ==
    \A e \in Persisted :
        ~BlankText(e.title) /\ ~BlankText(e.description) /\ ~BlankText(e.content)

\* the record of the store the last call used that has this id, as an entity
StoredWithId(id) ==
    AsEntity(last.useLocal,
             ActiveStore(last.useLocal)[FindIndex(ActiveStore(last.useLocal), id)])

\* the fallback: a stored list that normalizes to nothing, beside a
\* non-empty scalar, is returned as the list of that scalar alone
FallbackApplied(stored, returned) ==
    /\ (Normalized(stored.industries) = <<>> /\ Truthy(stored.industry)) =>
           returned.industries = Arr(<<stored.industry>>)
    /\ (Normalized(stored.categories) = <<>> /\ Truthy(stored.category)) =>
           returned.categories = Arr(<<stored.category>>)

\* C21 as stated: for every stored record whose industries (or categories)
\* normalizes to the empty list and whose scalar industry (or category) is
\* non-empty, getUseCases and getUseCaseById, on the local and on the remote
\* store, return industries = [industry] (or categories = [category]).
C21_GettersFallBackToScalar ==
    \A e \in ReturnedByGetter : FallbackApplied(StoredWithId(e.id), e)

\* a call in which the backend reported a failure
BackendReportedFailure(call) ==
    call.thrown.msg = BackendError \/ call.thrown.detail = BackendError

\* the error each operation raises for a failure of its backend
OperationScopedError(call) ==
    CASE call.op = "list" -> Err("Failed to fetch use cases", NoId, "")
      [] call.op = "get" -> Err("Failed to fetch use case with ID", call.id, "")
      [] call.op = "delete" -> Err("Failed to delete use case with ID", call.id, "")
      [] call.op = "create" -> Err("Failed to create use case: ", NoId, BackendError)
      [] call.op = "update" -> Err("Failed to update use case: ", NoId, BackendError)

\* C22: when the backend reports a failure, the operation fails with its
\* operation-scoped error (getUseCases the generic fetch error,
\* getUseCaseById the error naming the id, deleteUseCase the delete error) and
\* returns nothing; it made one backend call, no second one, and both stores
\* are as they were.
C22_BackendFailureIsOperationScoped ==
    [][ (last'.n = last.n + 1 /\ BackendReportedFailure(last')) =>
          /\ last'.outcome = "error"
          /\ last'.result = NoData
          /\ last'.error = OperationScopedError(last')
          /\ last'.localReads + last'.remoteCalls = 1
          /\ last'.localWrites = 0
          /\ localStore' = localStore
          /\ remoteStore' = remoteStore ]_vars

\* a deleteUseCase on the remote store has failed with the delete error, the
\* row still there
C22_Witness ==
    /\ last.op = "delete"
    /\ ~last.useLocal
    /\ BackendReportedFailure(last)
    /\ last.error = DeleteFailed(last.id)
    /\ last.remoteCalls = 1
    /\ \E i \in 1..Len(remoteStore) : remoteStore[i].id = last.id

\* C24: each operation reads and writes only the store its evaluation of
\* the backend predicate selected; the other store is never accessed and is
\* unchanged, whatever the predicate answered in the call before.
C24_OnlySelectedBackendTouched ==
    [][ (last'.n = last.n + 1) =>
          IF last'.useLocal
          THEN /\ remoteStore' = remoteStore
               /\ last'.remoteCalls = 0
          ELSE /\ localStore' = localStore
               /\ last'.localReads = 0
               /\ last'.localWrites = 0 ]_vars

\* a delete on the remote store, after a create on the local one, has emptied
\* the table and left the two local records
C24_Witness ==
    /\ last.op = "delete"
    /\ last.outcome = "ok"
    /\ ~last.useLocal
    /\ last.id = Uuid(0)
    /\ remoteStore = <<>>
    /\ Len(localStore) = 2
    /\ last.localReads = 0
    /\ last.localWrites = 0

\* the ids of a list of records or entities, in order
Ids(records) == [i \in 1..Len(records) |-> records[i].id]

FailingPlaces(data) ==
    {k \in 1..5 :
        CASE k = 1 -> BlankText(data.title)
          [] k = 2 -> BlankText(data.description)
          [] k = 3 -> BlankText(data.content)
          [] k = 4 -> Normalized(data.industries) = <<>>
          [] k = 5 -> Normalized(data.categories) = <<>>}

MessageOfPlace ==
    << "Title is required", "Description is required", "Content is required",
       "At least one industry is required", "At least one category is required" >>

\* C26: createUseCase reports the first failing field in the order title,
\* description, content, industries, categories: when several fields are
\* invalid its error names the earliest of them, and only that one.
C26_FirstFailingFieldReported ==
    (last.op = "create" /\ FailingPlaces(last.data) # {}) =>
        LET first == CHOOSE k \in FailingPlaces(last.data) :
                         \A j \in FailingPlaces(last.data) : k <= j
        IN /\ last.outcome = "error"
           /\ last.error.msg = MessageOfPlace[first]
           /\ last.thrown = last.error

\* a form with a blank description, a blank content and no industry has been
\* rejected for its description
C26_Witness ==
    /\ last.op = "create"
    /\ FailingPlaces(last.data) = {2, 3, 4}
    /\ last.outcome = "error"
    /\ last.error.msg = "Description is required"

\* C29: safeEnsureArray is idempotent: normalizing the list a call returned
\* gives that list again, under safeEnsureArray and under ensureArray.
C29_SafeEnsureArrayIdempotent ==
    NormDone =>
        /\ safeEnsureArray(Arr(NormValue), normOut.label) = Returned(NormValue)
        /\ ensureArray(Arr(NormValue)) = Returned(NormValue)

\* the list parsed from a JSON text has been normalized again, unchanged
C29_Witness ==
    /\ NormDone
    /\ normIn = Str(<<"[", "\"", "x", "\"", ",", "\"", "y", "\"", "]">>)
    /\ NormValue = <<Str(<<"x">>), Str(<<"y">>)>>
    /\ safeEnsureArray(Arr(NormValue), normOut.label).value = <<Str(<<"x">>), Str(<<"y">>)>>

\* the calls that returned without error
DoneOk(op) ==
    {c \in Callers : /\ pending[c].state = "done"
                     /\ pending[c].op = op
                     /\ pending[c].outcome = "ok"}

\* call c's write-back has just happened
Resumed(c) == pending[c].state = "waiting" /\ pending'[c].state = "done"

C27_LocalIdsDistinct ==
    \A i, j \in 1..Len(localStore) : i # j => localStore[i].id # localStore[j].id

\* C28: whatever the interleaving of concurrent createUseCase calls, every
\* record a call created is in the store, and the store holds one record per
\* successful create beside the legacy record (until that one is deleted):
\* no insert is lost to another call's write.
C28_NoInsertLost ==
    /\ \A c \in DoneOk("create") :
           \E k \in 1..Len(localStore) : localStore[k] = pending[c].result
    /\ Len(localStore) =
           Cardinality(DoneOk("create"))
               + (IF DoneOk("delete") = {} THEN 1 ELSE 0)

\* two creates, each invoked before the other wrote, have both completed and
\* both records are stored
C28_Witness ==
    /\ DoneOk("create") = {1, 2}
    /\ pending[1].seen = <<LegacyRecord>>
    /\ pending[2].seen = <<LegacyRecord>>
    /\ Len(localStore) = 3
    /\ localStore[2] = pending[1].result
    /\ localStore[3] = pending[2].result

\* C30: with a non-empty loaded list, after any sequence of auto-play ticks,
\* goToNext, goToPrevious and goToSlide(i) with 0 <= i < length, currentIndex
\* is at least 0 and below length; goToNext from the last slide lands on 0,
\* goToPrevious from slide 0 lands on length - 1, and an auto-play tick
\* moves the index only while isAutoPlaying is true.
C30_CurrentIndexInRange ==
    slideshow.length > 0 =>
        /\ 0 <= slideshow.currentIndex
        /\ slideshow.currentIndex < slideshow.length
        /\ (/\ slideshow.handled.event = "goToNext"
            /\ slideshow.handled.from = slideshow.length - 1) =>
               slideshow.currentIndex = 0
        /\ (/\ slideshow.handled.event = "goToPrevious"
            /\ slideshow.handled.from = 0) =>
               slideshow.currentIndex = slideshow.length - 1
        /\ slideshow.handled.event = "tick" => slideshow.isAutoPlaying

\* goToPrevious ran on slide 0 of a list of several and landed on the last
C30_Witness ==
    /\ slideshow.length = MaxSlides
    /\ slideshow.handled = [event |-> "goToPrevious", from |-> 0]
    /\ slideshow.currentIndex = MaxSlides - 1

====
